---- MODULE Spec2Model ----
(***************************************************************************)
(* Model of the crypto market pipeline: the ingestion job                  *)
(* (latest-data/cmc_latest_data_puller.py) that fetches, normalizes and    *)
(* saves a snapshot, and the dashboard script (dashboard/dashboard.py)     *)
(* that loads the snapshot, reduces it to the latest row per symbol and    *)
(* renders the derived metrics.                                            *)
(***************************************************************************)
EXTENDS Integers, Sequences, FiniteSets, TLC

VARIABLES
    value,            \* argument of the format_number_simple call under check
    formatted,        \* its outcome
    linked,           \* deployment: the job's file and the dashboard's file are one file
    fs,               \* the file system: path -> file content
    job_pc,           \* position of the ingestion job
    response,         \* what the upstream API answered to the current run
    raw_data,         \* puller: raw_data
    cleaned_df,       \* puller: cleaned_df
    written,          \* rows of cleaned_df flushed to the file so far
    start_fs,         \* the file system as it was when the current run started
    dash_pc,          \* how the last run of the dashboard script ended
    cache,            \* the st.cache_data entry of load_latest_data
    now,              \* wall clock, seconds
    refreshed,        \* the last run of the script was started by Refresh
    found,            \* the state of the cache entry that run found
    runs_left,        \* runs of the script the scenario still allows, -1: any number
    load_kind,        \* how the last load_latest_data call was served
    read_seen,        \* the file content df_latest was loaded from
    load_errors,      \* what the last run passed to st.error
    df_latest,        \* dashboard: df_latest
    rendered          \* what the sections of the script put on the page

fmtvars == <<value, formatted>>

jobvars == <<job_pc, response, raw_data, cleaned_df, written, start_fs>>

dashvars == <<dash_pc, cache, refreshed, found, runs_left, load_kind,
              read_seen, load_errors, df_latest, rendered>>

vars == <<value, formatted, linked, fs, job_pc, response, raw_data,
          cleaned_df, written, start_fs, dash_pc, cache, now,
          refreshed, found, runs_left, load_kind, read_seen, load_errors,
          df_latest, rendered>>

(***************************************************************************)
(* Bounds of the model.                                                    *)
(***************************************************************************)
MaxExp == 19

MaxBatch == 2

TickStep == 180

MaxClock == 540

MaxRows == 3

MaxViewRows == 6

(***************************************************************************)
(* Numbers.  A number handed to format_number_simple is m * 10^e, kept as  *)
(* the record [m, e] because 10^18 does not fit the checker's integers.    *)
(***************************************************************************)
Mantissas == {1, 5, 15, 25, 42, 999}

Values == {[m |-> 0, e |-> 0]} \cup [m : Mantissas, e : (-MaxExp)..MaxExp]

RECURSIVE Pow10(_)
Pow10(k) == IF k <= 0 THEN 1 ELSE 10 * Pow10(k - 1)

RECURSIVE NumDigits(_)
NumDigits(n) == IF n < 10 THEN 1 ELSE 1 + NumDigits(n \div 10)

DigitChar == <<"0", "1", "2", "3", "4", "5", "6", "7", "8", "9">>

RECURSIVE Digits(_)
Digits(n) == IF n < 10 THEN <<DigitChar[n + 1]>>
             ELSE Append(Digits(n \div 10), DigitChar[(n % 10) + 1])

\* floor(log10(m * 10^e)) for m > 0
FloorLog10(v) == NumDigits(v.m) - 1 + v.e

\* round(n / d) to the nearest integer, ties to the even neighbour
RoundHalfEven(n, d) ==
    LET q == n \div d
        r == n % d
    IN  IF 2 * r < d THEN q
        ELSE IF 2 * r > d THEN q + 1
        ELSE IF q % 2 = 0 THEN q ELSE q + 1

\* the tenths of  v / 1000^mag  as the format spec ".1f" rounds them
ScaledTenths(v, mag) ==
    LET x == v.e - 3 * mag + 1
    IN  IF x >= 0 THEN v.m * Pow10(x)
        ELSE IF -x > NumDigits(v.m) THEN 0
        ELSE RoundHalfEven(v.m, Pow10(-x))

\* f"{scaled_value:.1f}" as a sequence of characters
Fixed1(tenths) == Digits(tenths \div 10) \o <<".", DigitChar[(tenths % 10) + 1]>>

suffixes == <<"", "K", "M", "B", "T", "Q">>

SuffixChars(s) == IF s = "" THEN <<>> ELSE <<s>>

\* suffixes[i] with Python's list indexing: negative indices count from the
\* end, anything outside -6..5 raises IndexError
SuffixIndex(i) ==
    IF i >= 0 /\ i < Len(suffixes) THEN i + 1
    ELSE IF i < 0 /\ i >= -Len(suffixes) THEN Len(suffixes) + i + 1
    ELSE 0

NotCalled == [raised |-> "pending", text |-> <<>>]

Returned(text) == [raised |-> "none", text |-> text]

Raised(err) == [raised |-> err, text |-> <<>>]

magnitude(v) == IF v.m > 0 THEN FloorLog10(v) \div 3 ELSE 0

format_number_simple(v) ==
    IF v.m = 0 THEN Returned(<<"0">>)
    ELSE LET mag == magnitude(v)
         IN  IF SuffixIndex(mag) = 0 THEN Raised("IndexError")
             ELSE Returned(Fixed1(ScaledTenths(v, mag)) \o <<" ">>
                           \o SuffixChars(suffixes[SuffixIndex(mag)]))

(***************************************************************************)
(* Tables.  A DataFrame is the sequence of its rows; a row is a record of  *)
(* the columns the two programs use.  NaN is pandas' missing-value marker  *)
(* in a numeric or timestamp column.                                       *)
(***************************************************************************)
NaN == -99999

NaSymbol == "nan"

IsNA(row, col) == IF col = "symbol" THEN row.symbol = NaSymbol ELSE row[col] = NaN

EmptyFrame == <<>>

Empty(df) == Len(df) = 0

Quote(sym, t, p, v, cap, pct) ==
    [symbol |-> sym, last_updated |-> t, price |-> p, volume_24h |-> v,
     market_cap |-> cap, percent_change_24h |-> pct, pull_timestamp |-> NaN]

Min(a, b) == IF a < b THEN a ELSE b

RECURSIVE Ascending(_)
\* the elements of a finite set of integers, smallest first
Ascending(S) ==
    IF S = {} THEN <<>>
    ELSE LET lo == CHOOSE x \in S : \A y \in S : x <= y
         IN  <<lo>> \o Ascending(S \ {lo})

\* DataFrame.iloc[indexer]
Take(df, indexer) == [k \in 1..Len(indexer) |-> df[indexer[k]]]

RECURSIVE ArgSorts(_, _, _, _)
\* numpy argsort(kind="quicksort") of the values at positions S: every order
\* of the positions that is sorted; the sort is not stable, so rows with
\* equal keys come out in an order the build decides
ArgSorts(df, by, ascending, S) ==
    IF S = {} THEN {<<>>}
    ELSE LET first == {i \in S : \A j \in S :
                          IF ascending THEN df[i][by] <= df[j][by]
                                       ELSE df[i][by] >= df[j][by]}
         IN  UNION {{<<i>> \o rest : rest \in ArgSorts(df, by, ascending, S \ {i})}
                    : i \in first}

\* DataFrame.sort_values(by, ascending): the rows with a value are sorted,
\* the rows with a missing value follow in their original order
sort_values(df, by, ascending) ==
    LET present == {i \in 1..Len(df) : ~IsNA(df[i], by)}
        missing == {i \in 1..Len(df) : IsNA(df[i], by)}
    IN  {Take(df, p \o Ascending(missing)) : p \in ArgSorts(df, by, ascending, present)}

\* DataFrame.drop_duplicates(subset=['symbol'], keep='first'|'last')
drop_duplicates_first(df) ==
    Take(df, Ascending({i \in 1..Len(df) :
                          \A j \in 1..(i - 1) : df[j].symbol # df[i].symbol}))

drop_duplicates_none(df) == df

drop_duplicates_last(df) ==
    Take(df, Ascending({i \in 1..Len(df) :
                          \A j \in (i + 1)..Len(df) : df[j].symbol # df[i].symbol}))

\* DataFrame.head(n)
head(df, n) == SubSeq(df, 1, Min(n, Len(df)))

RECURSIVE ColumnSum(_, _)
\* Series.sum(): missing values are skipped
ColumnSum(df, col) ==
    IF Empty(df) THEN 0
    ELSE (IF IsNA(df[1], col) THEN 0 ELSE df[1][col]) + ColumnSum(Tail(df), col)

SymbolsOf(df) == {df[i].symbol : i \in 1..Len(df)}

(***************************************************************************)
(* Files.  The job writes SavePath, the dashboard reads LoadPath; whether  *)
(* the two names reach the same file is decided by the deployment          *)
(* (linked).  A file is absent, empty (zero bytes), text that read_csv     *)
(* cannot parse, or CSV text: a header naming the date column and one      *)
(* line per row.                                                           *)
(***************************************************************************)
SavePath == "cleaning/updated_file.csv"

LoadPath == "latest-data/latest_data.csv"

Paths == {SavePath, LoadPath}

Resolve(path) == IF linked /\ path = LoadPath THEN SavePath ELSE path

File(kind, datecol, lines) == [kind |-> kind, datecol |-> datecol, lines |-> lines]

Absent == File("absent", "none", <<>>)

ZeroBytes == File("empty", "none", <<>>)

Garbage == File("garbage", "none", <<>>)

\* DataFrame.to_csv(index=False): header, then one line per row
to_csv(df) == File("csv", "last_updated", df)

\* what the file holds once the first k rows have been flushed
Flushed(df, k) == File("csv", "last_updated", SubSeq(df, 1, k))

\* the strings pd.read_csv takes for a missing value (its default na_values)
NaValues == {"", "NA", "N/A", "NULL", "NaN", "None", "n/a", "nan", "null"}

\* a line of the file as pd.read_csv parses it
ReadBack(row) == [row EXCEPT !.symbol = IF @ \in NaValues THEN NaSymbol ELSE @]

\* pd.read_csv: raises on a zero-byte file and on unparseable text
read_csv(file) ==
    IF file.kind = "csv"
    THEN [raised |-> "none", df |-> [k \in 1..Len(file.lines) |-> ReadBack(file.lines[k])]]
    ELSE IF file.kind = "empty" THEN [raised |-> "EmptyDataError", df |-> EmptyFrame]
    ELSE [raised |-> "ParserError", df |-> EmptyFrame]

HasDateColumn(file) == file.datecol \in {"last_updated_utc+0", "last_updated"}

(***************************************************************************)
(* dashboard.py: load_latest_data without its cache.  The result is the    *)
(* set of outcomes the call can have: the returned frame and the messages  *)
(* passed to st.error.                                                     *)
(***************************************************************************)
Loaded(df, errors) == [df |-> df, errors |-> errors]

LatestPerSymbol(df) ==
    {drop_duplicates_last(sorted) : sorted \in sort_values(df, "last_updated", TRUE)}

load_latest_data(file) ==
    IF file.kind = "absent" THEN {Loaded(EmptyFrame, <<"not found">>)}
    ELSE IF read_csv(file).raised # "none"
         THEN {Loaded(EmptyFrame, <<read_csv(file).raised>>)}
    ELSE IF ~HasDateColumn(file) THEN {Loaded(EmptyFrame, <<"no date column">>)}
    ELSE {Loaded(latest, <<>>) : latest \in LatestPerSymbol(read_csv(file).df)}

(***************************************************************************)
(* dashboard.py: the sections of the script after the load.  A section     *)
(* that reads a variable no earlier section assigned raises NameError and  *)
(* ends the script run.                                                    *)
(***************************************************************************)
TopN == 5

default_comparison_coins == {"BTC", "ETH", "SOL"}

SidebarVariables == {"selected_coins", "selected_metric_internal",
                     "selected_display_metric", "selected_coin_historical"}

\* the guards "if not df_latest.empty" of the sections
SidebarGuard(df) == ~Empty(df)

LastUpdateGuard(df) == ~Empty(df)

AggregateGuard(df) == ~Empty(df)

HighlightsGuard(df) == ~Empty(df)

ComparisonGuard_Unguarded(df) == TRUE

ComparisonGuard(df) == ~Empty(df)

TableGuard(df) == ~Empty(df)

\* what the user can leave in the multiselect: its default, nothing, everything
Selections(df) ==
    {default_comparison_coins \cap SymbolsOf(df), {}, SymbolsOf(df)}

NoMetrics == [shown |-> "warning", total_volume |-> NotCalled,
              total_market_cap |-> NotCalled]

\* Global Market Metrics
Aggregate(df) ==
    IF AggregateGuard(df)
    THEN [shown |-> "metrics",
          total_volume |->
              format_number_simple([m |-> ColumnSum(df, "volume_24h"), e |-> 0]),
          total_market_cap |->
              format_number_simple([m |-> ColumnSum(df, "market_cap"), e |-> 0])]
    ELSE NoMetrics

AggregateError(df) ==
    IF Aggregate(df).total_volume.raised = "IndexError"
       \/ Aggregate(df).total_market_cap.raised = "IndexError"
    THEN "IndexError" ELSE "none"

TopGainers_Ascending(df) ==
    {head(s, TopN) : s \in sort_values(df, "percent_change_24h", TRUE)}

TopGainers(df) == {head(s, TopN) : s \in sort_values(df, "percent_change_24h", FALSE)}

TopLosers(df) == {head(s, TopN) : s \in sort_values(df, "percent_change_24h", TRUE)}

TopVolume(df) == {head(s, TopN) : s \in sort_values(df, "volume_24h", FALSE)}

TopMarketCap(df) == {head(s, TopN) : s \in sort_values(df, "market_cap", FALSE)}

NoHighlights == [top_gainers |-> EmptyFrame, top_losers |-> EmptyFrame,
                 top_volume |-> EmptyFrame, top_market_cap |-> EmptyFrame]

\* Market Highlights
Highlights(df) ==
    IF HighlightsGuard(df)
    THEN [top_gainers : TopGainers(df), top_losers : TopLosers(df),
          top_volume : TopVolume(df), top_market_cap : TopMarketCap(df)]
    ELSE {NoHighlights}

\* Coin Metrics Comparison and, inside the same guard, the historical chart
Comparison(df, defined, selected_coins) ==
    IF ~ComparisonGuard(df) THEN [comparison |-> "skipped", historical |-> "skipped", error |-> "none"]
    ELSE IF "selected_coins" \notin defined
         THEN [comparison |-> "none", historical |-> "none", error |-> "NameError"]
    ELSE IF "selected_coin_historical" \notin defined
         THEN [comparison |-> IF selected_coins # {} THEN "chart" ELSE "warning",
               historical |-> "none", error |-> "NameError"]
    ELSE [comparison |-> IF selected_coins # {} THEN "chart" ELSE "warning",
          historical |-> "widget", error |-> "none"]

NotRendered ==
    [sidebar |-> "none", selected_coins |-> {}, last_update |-> "none",
     aggregate |-> NoMetrics, highlights |-> NoHighlights,
     comparison |-> "none", historical |-> "none", table |-> "none",
     error |-> "none"]

\* one pass of the script over df_latest, section after section
RenderScript(df) ==
    LET defined == IF SidebarGuard(df) THEN SidebarVariables ELSE {}
        first == [NotRendered EXCEPT
                    !.sidebar = IF SidebarGuard(df) THEN "options" ELSE "warning",
                    !.last_update = IF LastUpdateGuard(df) THEN "shown" ELSE "skipped"]
    IN  IF AggregateError(df) # "none"
        THEN {[first EXCEPT !.error = AggregateError(df)]}
        ELSE {LET cmp == Comparison(df, defined, sel)
              IN  [first EXCEPT
                     !.selected_coins = sel,
                     !.aggregate = Aggregate(df),
                     !.highlights = hl,
                     !.comparison = cmp.comparison,
                     !.historical = cmp.historical,
                     !.error = cmp.error,
                     !.table = IF cmp.error # "none" THEN "none"
                               ELSE IF TableGuard(df) THEN "shown" ELSE "skipped"]
              : sel \in (IF SidebarGuard(df) THEN Selections(df) ELSE {{}}),
                hl \in Highlights(df)}

(***************************************************************************)
(* cmc_latest_data_puller.py.  A JSON body is nothing (None), an empty     *)
(* document or an object; an object may lack the 'data' key and the        *)
(* status timestamp, and a record of its data array may lack a field       *)
(* (NaN in the raw record).                                                *)
(***************************************************************************)
Json(kind, has_data, data, timestamp) ==
    [json |-> kind, has_data |-> has_data, data |-> data, timestamp |-> timestamp]

None == Json("none", FALSE, <<>>, NaN)

EmptyJson == Json("empty", FALSE, <<>>, NaN)

ErrorBody == Json("object", FALSE, <<>>, 3)

\* Python's truth value of raw_data
Truthy(raw) == raw.json = "object"

\* the columns line 46 selects (of the twelve, those the rows of the model carry)
Columns == {"symbol", "price", "volume_24h", "market_cap",
            "percent_change_24h", "last_updated"}

\* pd.json_normalize: a column exists when some record has the field
HasColumn(data, col) == \E i \in 1..Len(data) : ~IsNA(data[i], col)

\* fetch_data: None on a transport failure and on a 4xx/5xx status
fetch_data_unchecked(resp) == IF resp.status = 0 THEN None ELSE resp.body

fetch_data(resp) ==
    IF resp.status = 0 THEN None
    ELSE IF resp.status >= 400 THEN None
    ELSE resp.body

clean_and_format_data(raw) ==
    IF ~Truthy(raw) \/ ~raw.has_data THEN [raised |-> "none", df |-> EmptyFrame]
    ELSE IF raw.timestamp = NaN THEN [raised |-> "KeyError", df |-> EmptyFrame]
    ELSE IF \E col \in Columns : ~HasColumn(raw.data, col)
         THEN [raised |-> "KeyError", df |-> EmptyFrame]
    ELSE [raised |-> "none",
          df |-> [i \in 1..Len(raw.data) |->
                     [raw.data[i] EXCEPT !.pull_timestamp = raw.timestamp]]]

(***************************************************************************)
(* Inputs of the model: what the upstream API can answer and what the      *)
(* snapshot files can hold before the first run.                           *)
(***************************************************************************)
Symbols == {"BTC", "ETH"}

\* a record of the listing as the API reports it; has_volume = FALSE is a
\* record without quote.USD.volume_24h; "NA" is the ticker of a listed asset
ApiRecord(sym, has_volume) ==
    IF sym = "BTC"
    THEN Quote(sym, 2, 10, IF has_volume THEN 5 ELSE NaN, 7, 1)
    ELSE IF sym = "ETH"
    THEN Quote(sym, 2, 20, IF has_volume THEN 4 ELSE NaN, 3, -1)
    ELSE Quote(sym, 2, 30, IF has_volume THEN 6 ELSE NaN, 8, 2)

ApiRecords == {ApiRecord("BTC", TRUE), ApiRecord("ETH", FALSE), ApiRecord("NA", TRUE)}

DataArrays == UNION {[1..k -> ApiRecords] : k \in 0..MaxBatch}

FullBody == Json("object", TRUE, <<ApiRecord("BTC", TRUE), ApiRecord("ETH", TRUE)>>, 3)

Bodies == {EmptyJson, ErrorBody}
          \cup {Json("object", TRUE, d, ts) : d \in DataArrays, ts \in {NaN, 3}}

\* status 0 stands for a request that got no response (timeout, DNS, reset)
Responses == {[status |-> 0, body |-> None]}
             \cup {[status |-> 401, body |-> b] : b \in {ErrorBody, FullBody}}
             \cup {[status |-> 200, body |-> b] : b \in Bodies}

NoResponse == [status |-> -1, body |-> None]

\* an upstream that accepted the connection and never sends a byte
Silent == [status |-> -2, body |-> None]

OldRow == [Quote("BTC", 1, 9, 5, 7, 1) EXCEPT !.pull_timestamp = 1]

InitialFiles == {Absent, Garbage,
                 File("csv", "none", <<OldRow>>),
                 File("csv", "last_updated_utc+0", <<OldRow>>),
                 File("csv", "last_updated", <<>>)}

(***************************************************************************)
(* The ingestion job: one execution of the __main__ block of the puller.   *)
(***************************************************************************)
\* line 88: if not cleaned_df.empty
ShouldSave(df) == ~Empty(df)

\* lines 82-93: fetch_data, the length print, clean_and_format_data and the
\* two checks; everything up to the call of save_updated_data
JobRun ==
    /\ job_pc \in {"idle", "fetching"}
    /\ job_pc = "fetching" => response = NoResponse
    /\ start_fs' = fs
    /\ written' = -1
    /\ \E resp \in Responses :
          /\ response' = resp
          /\ raw_data' = fetch_data(resp)
    /\ IF ~Truthy(raw_data')
       THEN job_pc' = "done" /\ cleaned_df' = EmptyFrame
       ELSE IF ~raw_data'.has_data
       THEN job_pc' = "crashed" /\ cleaned_df' = EmptyFrame
       ELSE IF clean_and_format_data(raw_data').raised # "none"
       THEN job_pc' = "crashed" /\ cleaned_df' = EmptyFrame
       ELSE /\ cleaned_df' = clean_and_format_data(raw_data').df
            /\ job_pc' = IF ShouldSave(cleaned_df') THEN "save" ELSE "done"
    /\ UNCHANGED <<fmtvars, linked, fs, dashvars, now>>

\* save_updated_data, line 73: to_csv opens the path for writing, which
\* truncates the file in place
SaveOpen ==
    /\ job_pc = "save"
    /\ fs' = [fs EXCEPT ![SavePath] = ZeroBytes]
    /\ written' = 0
    /\ job_pc' = "writing"
    /\ UNCHANGED <<fmtvars, linked, response, raw_data, cleaned_df, start_fs,
                   dashvars, now>>

\* to_csv writes through a buffer: the header and the rows reach the file
\* in one or several flushes, the last one when the file is closed
SaveFlush ==
    /\ job_pc = "writing"
    /\ \E k \in (written + 1)..Len(cleaned_df) :
          /\ fs' = [fs EXCEPT ![SavePath] = Flushed(cleaned_df, k)]
          /\ written' = k
          /\ job_pc' = IF k = Len(cleaned_df) THEN "done" ELSE "writing"
    /\ UNCHANGED <<fmtvars, linked, response, raw_data, cleaned_df, start_fs,
                   dashvars, now>>

\* lines 75-76: any exception of to_csv is printed and swallowed
SaveFail ==
    /\ job_pc \in {"save", "writing"}
    /\ job_pc' = "done"
    /\ UNCHANGED <<fmtvars, linked, fs, response, raw_data, cleaned_df, written,
                   start_fs, dashvars, now>>

SaveCompleted == job_pc = "done" /\ written = Len(cleaned_df) /\ written > 0

(***************************************************************************)
(* The dashboard: the script runs from top to bottom on every user         *)
(* interaction; only the cache of load_latest_data outlives a run.         *)
(***************************************************************************)
ttl == 360

NoEntry == [valid |-> FALSE, df |-> EmptyFrame, stored_at |-> 0]

\* the cache entry a run finds: none, younger than ttl, or as old as ttl
EntryState(entry, t) ==
    IF ~entry.valid THEN "none"
    ELSE IF t - entry.stored_at < ttl THEN "fresh" ELSE "stale"

\* st.cache_data(ttl=360): an entry is served until ttl seconds have passed
CacheFresh(entry, t) == entry.valid /\ t - entry.stored_at < ttl

\* st.cache_data.clear()
Cleared_Kept(entry) == entry

Cleared(entry) == NoEntry

\* lines 269-507, one run of the script: the Refresh button (clicked) clears
\* the cache and reruns; load_latest_data is served from the cache or reads
\* the file; the sections render df_latest.  On a hit the body of
\* load_latest_data does not run, so nothing is passed to st.error.
ScriptRun(clicked) ==
    LET entry == IF clicked THEN Cleared(cache) ELSE cache
        file == fs[Resolve(LoadPath)]
    IN  /\ runs_left # 0
        /\ runs_left' = IF runs_left > 0 THEN runs_left - 1 ELSE runs_left
        /\ found' = EntryState(cache, now)
        /\ refreshed' = clicked
        /\ IF CacheFresh(entry, now)
           THEN /\ df_latest' = entry.df
                /\ load_errors' = <<>>
                /\ load_kind' = "hit"
                /\ cache' = entry
                /\ UNCHANGED read_seen
           ELSE /\ \E out \in load_latest_data(file) :
                      /\ df_latest' = out.df
                      /\ load_errors' = out.errors
                      /\ cache' = [valid |-> TRUE, df |-> out.df, stored_at |-> now]
                /\ load_kind' = "read"
                /\ read_seen' = file
        /\ \E page \in RenderScript(df_latest') :
              /\ rendered' = page
              /\ dash_pc' = IF page.error = "none" THEN "done" ELSE "crashed"

\* a page load or a widget change reruns the script; the button is not pressed
Interact ==
    /\ ScriptRun(FALSE)
    /\ UNCHANGED <<fmtvars, linked, fs, jobvars, now>>

\* the user presses Refresh
ClickRefresh ==
    /\ ScriptRun(TRUE)
    /\ UNCHANGED <<fmtvars, linked, fs, jobvars, now>>

Tick ==
    /\ now + TickStep <= MaxClock
    /\ now' = now + TickStep
    /\ UNCHANGED <<fmtvars, linked, fs, jobvars, dashvars>>

JobAtRest ==
    /\ job_pc = "idle" /\ response = NoResponse /\ raw_data = None
    /\ cleaned_df = EmptyFrame /\ written = -1

DashStart(budget) ==
    /\ dash_pc = "idle" /\ cache = NoEntry /\ now = 0 /\ runs_left = budget
    /\ refreshed = FALSE /\ found = "none" /\ load_kind = "none"
    /\ read_seen = Absent /\ load_errors = <<>> /\ df_latest = EmptyFrame
    /\ rendered = NotRendered

DashAtRest == DashStart(-1)

FormatAtRest == value = [m |-> 0, e |-> 0] /\ formatted = NotCalled

Init ==
    /\ FormatAtRest
    /\ linked \in BOOLEAN
    /\ fs \in [Paths -> InitialFiles]
    /\ linked => fs[LoadPath] = Absent
    /\ ~linked => fs[SavePath] = Absent
    /\ start_fs = fs
    /\ JobAtRest
    /\ DashAtRest

Next ==
    \/ JobRun
    \/ SaveOpen
    \/ SaveFlush
    \/ SaveFail
    \/ Interact
    \/ ClickRefresh
    \/ Tick

Spec == Init /\ [][Next]_vars

(***************************************************************************)
(* Specification of the load alone: the dashboard runs once over a         *)
(* snapshot table holding several pulls of the same symbols.               *)
(***************************************************************************)
Stamps == {1, 2}

Prices == {10, 20}

SnapshotRow(sym, t, p) ==
    [ApiRecord(sym, TRUE) EXCEPT !.last_updated = t, !.price = p, !.pull_timestamp = t]

SnapshotRows == {SnapshotRow(sym, t, p) : sym \in Symbols, t \in Stamps, p \in Prices}

SnapshotTables == UNION {[1..k -> SnapshotRows] : k \in 1..MaxRows}

InitLatest ==
    /\ FormatAtRest
    /\ linked = FALSE
    /\ \E table \in SnapshotTables, datecol \in {"last_updated", "last_updated_utc+0"} :
          fs = [p \in Paths |-> IF p = LoadPath THEN File("csv", datecol, table)
                                ELSE Absent]
    /\ start_fs = fs
    /\ JobAtRest
    /\ DashStart(1)

NextDash ==
    \/ Interact
    \/ ClickRefresh

SpecLatest == InitLatest /\ [][NextDash]_vars

(***************************************************************************)
(* Specification of the rankings: the dashboard runs once over a snapshot  *)
(* of more assets than a top list holds, with equal and missing changes.   *)
(***************************************************************************)
TopSymbols == <<"BTC", "ETH", "SOL", "XRP", "ADA", "DOGE", "BNB", "TRX">>

PctValues == {-1, 0, 2, NaN}

TopRow(i, pct) ==
    [Quote(TopSymbols[i], i, 10, 10 + i, 20 + i, pct) EXCEPT !.pull_timestamp = i]

\* no value of percent_change_24h is shared by three rows
TiesBounded(f, n) ==
    \A i, j, k \in 1..n :
        (i < j /\ j < k /\ f[i] # NaN) => ~(f[i] = f[j] /\ f[j] = f[k])

TopTables ==
    UNION {{[i \in 1..n |-> TopRow(i, f[i])] :
               f \in {g \in [1..n -> PctValues] : TiesBounded(g, n)}}
           : n \in 1..Min(MaxViewRows, Len(TopSymbols))}

InitTop ==
    /\ FormatAtRest
    /\ linked = FALSE
    /\ \E table \in TopTables :
          fs = [p \in Paths |-> IF p = LoadPath THEN File("csv", "last_updated", table)
                                ELSE Absent]
    /\ start_fs = fs
    /\ JobAtRest
    /\ DashStart(1)

NextTop == Interact

SpecTop == InitTop /\ [][NextTop]_vars

(***************************************************************************)
(* Specification of the formatter alone: any number of the domain is       *)
(* formatted once.                                                         *)
(***************************************************************************)
InitFormat ==
    /\ value \in Values
    /\ formatted = NotCalled
    /\ linked = FALSE
    /\ fs = [p \in Paths |-> Absent]
    /\ start_fs = fs
    /\ JobAtRest
    /\ DashAtRest

FormatValue ==
    /\ formatted = NotCalled
    /\ formatted' = format_number_simple(value)
    /\ UNCHANGED <<value, linked, fs, jobvars, dashvars, now>>

NextFormat == FormatValue

SpecFormat == InitFormat /\ [][NextFormat]_vars

(***************************************************************************)
(* Specification of the ingestion job alone, with the request in flight    *)
(* as a state of its own.  The job's own steps are taken when they can be, *)
(* and an upstream that is going to answer does answer; nothing makes a    *)
(* silent upstream answer.                                                 *)
(***************************************************************************)
\* line 23: requests.get(url, headers=headers, params=parameters) is sent;
\* the call is given no timeout argument
SendRequest ==
    /\ job_pc = "idle"
    /\ job_pc' = "fetching"
    /\ response' \in {NoResponse, Silent}
    /\ UNCHANGED <<fmtvars, linked, fs, raw_data, cleaned_df, written, start_fs,
                   dashvars, now>>

\* lines 23-32 and 84-93: the answer (or the transport error) arrives and
\* the run goes on as far as the call of save_updated_data
ReceiveResponse == job_pc = "fetching" /\ JobRun

NextFetch ==
    \/ SendRequest
    \/ ReceiveResponse
    \/ SaveOpen
    \/ SaveFlush
    \/ SaveFail

SpecFetch ==
    /\ Init
    /\ [][NextFetch]_vars
    /\ WF_vars(SendRequest)
    /\ WF_vars(ReceiveResponse)
    /\ WF_vars(SaveOpen)
    /\ WF_vars(SaveFlush)

(***************************************************************************)
(* Properties.                                                             *)
(***************************************************************************)
\* the rows of a file as read_csv parses them
SourceRows(file) == {read_csv(file).df[k] : k \in 1..Len(read_csv(file).df)}

\* the largest last_updated among the rows of a file that carry the symbol
LatestStamp(file, sym) ==
    CHOOSE t \in {r.last_updated : r \in {q \in SourceRows(file) : q.symbol = sym}} :
        \A r \in SourceRows(file) : r.symbol = sym => r.last_updated <= t

\* C1: the table load_latest_data returns for a snapshot table has at most
\* one row per symbol, one for every symbol of the table, and each kept row
\* is a row of the table whose last_updated is the largest among the rows
\* of its symbol (so it carries the price of the latest pull).
C1_LatestPerSymbol ==
    (dash_pc # "idle" /\ read_seen.kind = "csv" /\ HasDateColumn(read_seen)) =>
        /\ SymbolsOf(df_latest) = {r.symbol : r \in SourceRows(read_seen)}
        /\ \A i \in 1..Len(df_latest) :
              /\ \A j \in 1..Len(df_latest) :
                    j # i => df_latest[j].symbol # df_latest[i].symbol
              /\ df_latest[i] \in SourceRows(read_seen)
              /\ df_latest[i].last_updated = LatestStamp(read_seen, df_latest[i].symbol)

\* two BTC rows pulled at T1 = 1 and T2 = 2 with different prices, the older
\* one written last, and the returned BTC row carries the T2 price
C1_Witness ==
    /\ dash_pc = "done"
    /\ load_kind = "read"
    /\ read_seen.lines = <<SnapshotRow("BTC", 2, 20), SnapshotRow("BTC", 1, 10)>>
    /\ df_latest = <<SnapshotRow("BTC", 2, 20)>>

FetchFailed(resp) == resp.status = 0 \/ resp.status < 200 \/ resp.status >= 300

CleanFailed == job_pc = "crashed" /\ Truthy(raw_data) /\ raw_data.has_data

\* C2: a run whose fetch failed (no response, or a status outside 2xx) or
\* whose clean_and_format_data raised has ended without opening the file
\* for writing, and every file is as it was when the run started.
C2_FailedRunLeavesFile ==
    (job_pc \in {"done", "crashed"} /\ (FetchFailed(response) \/ CleanFailed)) =>
        (written = -1 /\ fs = start_fs)

\* a run answered with HTTP 401 has ended and the previous snapshot is there
C2_Witness ==
    /\ job_pc = "done"
    /\ response.status = 401
    /\ fs[SavePath] = File("csv", "last_updated_utc+0", <<OldRow>>)

\* C3: whatever the interleaving of the job's save and a dashboard load,
\* the file the dashboard read is the complete file from before the run or
\* the complete file of the new batch, never anything in between.
C3_ReaderSeesWholeFile ==
    dash_pc # "idle" =>
        \/ read_seen = start_fs[Resolve(LoadPath)]
        \/ (job_pc \in {"save", "writing", "done"} /\ read_seen = to_csv(cleaned_df))

EmptyBatch(raw) ==
    Truthy(raw) /\ raw.has_data /\ raw.data = <<>> /\ raw.timestamp # NaN

ZeroMetrics ==
    [shown |-> "metrics", total_volume |-> Returned(<<"0">>),
     total_market_cap |-> Returned(<<"0">>)]

\* C4: a run whose batch has a present, empty data array normalizes it to
\* zero rows without raising, and a dashboard run over an empty table
\* reports both totals as zero without an error.
C4_EmptyBatchIsZero ==
    (job_pc # "idle" /\ EmptyBatch(raw_data)) =>
        /\ job_pc # "crashed"
        /\ cleaned_df = EmptyFrame
        /\ (dash_pc # "idle" /\ Empty(df_latest)) =>
              (dash_pc = "done" /\ rendered.aggregate = ZeroMetrics)

AtLeastOne(v) == v.m > 0 /\ FloorLog10(v) >= 0

Below1000(v) == v.m > 0 /\ FloorLog10(v) < 3

ClampedTier(v) == Min(FloorLog10(v) \div 3, Len(suffixes) - 1)

\* C5: format_number_simple(0) is "0"; a value >= 1 comes out as
\* value / 1000^t to one decimal, a space and the suffix of tier
\* t = min(floor(log10(value) / 3), 5), and the call never fails.
C5_ClampedTier ==
    formatted # NotCalled =>
        /\ value.m = 0 => formatted = Returned(<<"0">>)
        /\ AtLeastOne(value) =>
              formatted = Returned(Fixed1(ScaledTenths(value, ClampedTier(value)))
                                   \o <<" ">>
                                   \o SuffixChars(suffixes[ClampedTier(value) + 1]))

\* C6: a positive value below 1000, also one below 1, comes out unscaled
\* to one decimal, followed by a space and no suffix.
C6_NoSuffixBelow1000 ==
    (formatted # NotCalled /\ Below1000(value)) =>
        formatted = Returned(Fixed1(ScaledTenths(value, 0)) \o <<" ">>)

\* a before b in the order of percent_change_24h, largest first when
\* descending; a row without a value has no place in the order and is
\* compared with nothing
InOrder(a, b, descending) ==
    (~IsNA(a, "percent_change_24h") /\ ~IsNA(b, "percent_change_24h")) =>
        IF descending THEN a.percent_change_24h >= b.percent_change_24h
                      ELSE a.percent_change_24h <= b.percent_change_24h

TopListOf(list, df, descending) ==
    /\ Len(list) = Min(TopN, Len(df))
    /\ \A i \in 1..Len(list) : \E k \in 1..Len(df) : df[k] = list[i]
    /\ \A i, j \in 1..Len(list) : i < j => InOrder(list[i], list[j], descending)
    /\ \A k \in 1..Len(df) :
          (\A i \in 1..Len(list) : list[i] # df[k]) =>
              \A i \in 1..Len(list) : InOrder(list[i], df[k], descending)

\* C7: over a non-empty latest view the gainers are listed by
\* percent_change_24h largest first and the losers smallest first, each
\* list holds min(5, rows) rows of the view, and no row left out of a list
\* would come before a listed row.
C7_TopLists ==
    (dash_pc = "done" /\ ~Empty(df_latest)) =>
        /\ TopListOf(rendered.highlights.top_gainers, df_latest, TRUE)
        /\ TopListOf(rendered.highlights.top_losers, df_latest, FALSE)

\* more rows than a list holds, equal changes on both sides of the cut of
\* the gainers
C7_Witness ==
    /\ dash_pc = "done"
    /\ Len(df_latest) = TopN + 1
    /\ Len(rendered.highlights.top_gainers) = TopN
    /\ Len(rendered.highlights.top_losers) = TopN
    /\ ~IsNA(rendered.highlights.top_gainers[TopN], "percent_change_24h")
    /\ \E k \in 1..Len(df_latest) :
          /\ df_latest[k].percent_change_24h =
                rendered.highlights.top_gainers[TopN].percent_change_24h
          /\ \A i \in 1..TopN : rendered.highlights.top_gainers[i] # df_latest[k]

BadFile(file) == file.kind \in {"absent", "empty", "garbage"} \/ ~HasDateColumn(file)

EmptyStatePage ==
    [NotRendered EXCEPT !.sidebar = "warning", !.last_update = "skipped",
                        !.comparison = "skipped", !.historical = "skipped",
                        !.table = "skipped"]

\* C8: when the file the table was loaded from is absent, cannot be parsed
\* or has no date column, the load that read it passed one message to
\* st.error and returned the empty table, and the run of the script ended
\* without an exception with every section in its empty state.
C8_GracefulEmptyState ==
    (dash_pc # "idle" /\ BadFile(read_seen)) =>
        /\ df_latest = EmptyFrame
        /\ dash_pc = "done"
        /\ rendered = EmptyStatePage
        /\ load_kind = "read" => Len(load_errors) = 1

\* a run that read unparseable text
C8_Witness ==
    /\ dash_pc = "done"
    /\ load_kind = "read"
    /\ read_seen = Garbage
    /\ load_errors = <<"ParserError">>
    /\ rendered = EmptyStatePage

\* the dashboard loaded the file of a completed save
LoadedAfterSave ==
    /\ linked
    /\ SaveCompleted
    /\ dash_pc # "idle"
    /\ read_seen = to_csv(cleaned_df)

\* C9 as stated: a load after the save of a batch has as many rows as the
\* normalizer produced.
C9_SameRowCount == LoadedAfterSave => Len(df_latest) = Len(cleaned_df)

\* C9: a load after the save of a batch has one row for every distinct
\* symbol the saved file reads back with, each of them a row of the batch
\* as read back; it never has more rows than the batch.
C9_OneRowPerSymbol ==
    LoadedAfterSave =>
        /\ Len(df_latest) = Cardinality({ReadBack(r).symbol : r \in SourceRows(read_seen)})
        /\ SymbolsOf(df_latest) = {ReadBack(cleaned_df[k]).symbol : k \in 1..Len(cleaned_df)}
        /\ \A i \in 1..Len(df_latest) : \E k \in 1..Len(cleaned_df) :
              ReadBack(cleaned_df[k]) = df_latest[i]
        /\ Len(df_latest) <= Len(cleaned_df)

\* a saved batch of two rows with one symbol, loaded as one row
C9_Witness ==
    /\ LoadedAfterSave
    /\ Len(cleaned_df) = 2
    /\ Len(df_latest) = 1

\* C10: a run started by Refresh never serves the load from the cache, and
\* a run serves the load from the cache only when the entry it found was
\* younger than ttl.
C10_CacheInvalidation ==
    /\ refreshed => load_kind # "hit"
    /\ load_kind = "hit" => found = "fresh"

\* Refresh pressed while a fresh entry was cached: the file was read again
C10_Witness ==
    /\ refreshed
    /\ found = "fresh"
    /\ load_kind = "read"
    /\ now < ttl

RunEnded == job_pc \in {"done", "crashed"}

\* C11: fetch_data does not wait for ever, so every ingestion run comes to
\* an end, also one whose upstream never responds.
C11_RunTerminates == <>RunEnded

\* the records of a batch that carry every selected field
Complete(rec) == \A col \in Columns : ~IsNA(rec, col)

IncompleteBatch(raw) ==
    /\ Truthy(raw) /\ raw.has_data /\ raw.timestamp # NaN
    /\ \E i \in 1..Len(raw.data) : ~Complete(raw.data[i])

\* the rows of the complete records of a batch, in order
CompleteRows(raw) ==
    LET kept == SelectSeq(raw.data, Complete)
    IN  [i \in 1..Len(kept) |-> [kept[i] EXCEPT !.pull_timestamp = raw.timestamp]]

\* C12: a run whose batch has records without a required field does not
\* abort, and its normalized rows are the rows of the complete records, one
\* for each, so that no row carries a missing field.
C12_IncompleteRecordsDropped ==
    (job_pc \notin {"idle", "fetching"} /\ IncompleteBatch(raw_data)) =>
        /\ job_pc # "crashed"
        /\ cleaned_df = CompleteRows(raw_data)

====
